---------------------------- MODULE Spec2Model ----------------------------
(***************************************************************************)
(* A model of lib/web/JsonpTemplatePlugin.js: the per-compilation hook     *)
(* registry, the attribute renderer, the script / preload / prefetch tag   *)
(* builders, the chunk manifest emitter, the chunk hash contribution, the  *)
(* runtime-requirement listeners and the script-loading code the plugin    *)
(* generates (executed as a small state machine).                          *)
(***************************************************************************)
EXTENDS Integers, Sequences, FiniteSets, TLC

VARIABLES
    compilationHooksMap, \* WeakMap<Compilation, hooks>: compilation -> hook-set id, 0 = undefined
    hookSets,            \* allocated hook-set objects: four hook object ids each
    hookTaps,            \* allocated SyncWaterfallHook objects: their taps, in registration order
    applied,             \* compilation -> the hook set its thisCompilation listener captured, 0 = not run
    ranFor,              \* <<compilation a tap was registered through, compilation it ran for>>
    lastCall,            \* what the most recent operation on the registry returned
    tagIn,               \* a built-in transform's inputs: hook, options, mutateTag taps, source
    tagOut               \* what the built-in transform made of them

hookVars == <<compilationHooksMap, hookSets, hookTaps, applied, ranFor, lastCall>>
tagVars == <<tagIn, tagOut>>

VARIABLES
    renderIn,   \* the render context of the most recent renderChunk call
    renderOut,  \* the ConcatSource it returned: the pieces added, in order
    hashIn,     \* per hash object: the chunk and options chunkHash was called with
    hashLog,    \* per hash object: the arguments of hash.update, in order
    hashData    \* per hash object: the data the hash has digested

renderVars == <<renderIn, renderOut>>
hashVars == <<hashIn, hashLog, hashData>>

VARIABLES
    onceForChunkSet,  \* WeakSet of the chunks the handler has run for
    capSets,          \* the capability Set objects handed to the listeners: owner and content
    addedModules,     \* compilation.addRuntimeModule calls: chunk and the set the module holds
    handled,          \* chunks the handler has been invoked for
    pass              \* the current propagation pass: its inputs and the listeners still to run

propVars == <<onceForChunkSet, capSets, addedModules, handled, pass>>

VARIABLES
    load  \* one load attempt of the generated script-loading code: its variables, the
          \* script element, the timer, and what the host has observed

loadVars == <<load>>

VARIABLES
    attrIn,   \* arguments of a renderAttributes call
    attrOut   \* the lines it returned

attrVars == <<attrIn, attrOut>>

vars == <<hookVars, tagVars, renderVars, hashVars, propVars, loadVars, attrVars>>

-----------------------------------------------------------------------------
(* Bounds *)

MaxTaps == 2        \* plugin transforms registered through the registry
MaxMutateTaps == 2  \* transforms on mutateTag when a built-in transform runs

-----------------------------------------------------------------------------
(* JavaScript values that flow through the tag pipeline *)

Str(s) == [kind |-> "string", text |-> s, items |-> <<>>]
Arr(xs) == [kind |-> "array", text |-> "", items |-> xs]
Obj(es) == [kind |-> "object", text |-> "", items |-> es]
Undefined == [kind |-> "undefined", text |-> "", items |-> <<>>]

Prop(k, v) == [key |-> k, val |-> v]

\* The characters of the strings the generated-code builders can index.
Chars(s) ==
    CASE s = "\"script\"" -> <<"\"", "s", "c", "r", "i", "p", "t", "\"">>
      [] s = "\"link\"" -> <<"\"", "l", "i", "n", "k", "\"">>
      [] s = "onScriptComplete" ->
            <<"o", "n", "S", "c", "r", "i", "p", "t", "C", "o", "m", "p", "l", "e", "t", "e">>
      [] Len(s) <= 1 -> IF s = "" THEN <<>> ELSE <<s>>

RECURSIVE Join(_, _)
Join(xs, sep) ==
    IF xs = <<>> THEN ""
    ELSE IF Len(xs) = 1 THEN xs[1]
    ELSE xs[1] \o sep \o Join(Tail(xs), sep)

\* v.length
Length(v) ==
    CASE v.kind = "string" -> Len(v.text)
      [] v.kind = "array" -> Len(v.items)
      [] OTHER -> -1

\* v[i], zero-based, as JavaScript indexes strings and arrays
Index(v, i) ==
    CASE v.kind = "string" ->
            IF i < Len(v.text) THEN Str(Chars(v.text)[i + 1]) ELSE Undefined
      [] v.kind = "array" ->
            IF i < Len(v.items) THEN v.items[i + 1] ELSE Undefined
      [] OTHER -> Undefined

\* `${v}`: the string coercion of a template literal
RECURSIVE ToStr(_)
ToStr(v) ==
    CASE v.kind = "string" -> v.text
      [] v.kind = "undefined" -> "undefined"
      [] v.kind = "object" -> "[object Object]"
      [] v.kind = "array" ->
            Join([i \in 1..Len(v.items) |->
                    IF v.items[i].kind = "undefined" THEN "" ELSE ToStr(v.items[i])], ",")

\* JSON.stringify of a string without characters that need escaping
JSONstring(s) == "\"" \o s \o "\""

\* Object.entries(v)
ObjectEntries(v) ==
    CASE v.kind = "object" -> v.items
      [] v.kind = "array" -> [i \in 1..Len(v.items) |-> Prop(ToString(i - 1), v.items[i])]
      [] v.kind = "string" ->
            [i \in 1..Len(v.text) |-> Prop(ToString(i - 1), Str(Chars(v.text)[i]))]
      [] OTHER -> <<>>

\* { ...o, [k]: v }: an existing key keeps its place, a new one goes last
RECURSIVE HasKey(_, _)
HasKey(es, k) == es # <<>> /\ (es[1].key = k \/ HasKey(Tail(es), k))

SetKey(es, k, v) ==
    IF HasKey(es, k)
    THEN [i \in 1..Len(es) |-> IF es[i].key = k THEN Prop(k, v) ELSE es[i]]
    ELSE Append(es, Prop(k, v))

RECURSIVE Flatten(_)
Flatten(xss) == IF xss = <<>> THEN <<>> ELSE xss[1] \o Flatten(Tail(xss))

-----------------------------------------------------------------------------
(* Template helpers *)

\* Code is kept as its sequence of lines; Template.asString joins them.
indent(s) == IF s = "" THEN "" ELSE "\t" \o s

indentLines(lines) == [i \in 1..Len(lines) |-> indent(lines[i])]

asString(lines) == Join(lines, "\n")

\* runtimeTemplate.basicFunction(args, body), as lines
basicFunction(args, body) == <<"function(" \o args \o ") {">> \o indentLines(body) \o <<"}">>

\* prefix + lines + suffix, where lines is a multi-line expression
Embed(prefix, lines, suffix) ==
    [i \in 1..Len(lines) |->
        (IF i = 1 THEN prefix ELSE "") \o lines[i] \o (IF i = Len(lines) THEN suffix ELSE "")]

scriptNonce == "__webpack_require__.nc"
publicPath == "__webpack_require__.p"
getChunkScriptFilename == "__webpack_require__.u"

-----------------------------------------------------------------------------
(* JsonpTemplatePlugin.renderAttributes *)

\* a block that ignores the guard
renderAttributeUnguarded(varName, e) ==
    <<varName \o "." \o e.key \o " = " \o ToStr(Index(e.val, 0)) \o ";">>

renderAttribute(varName, e) ==
    LET valueCondition == e.val
        setter == varName \o "." \o e.key \o " = " \o ToStr(Index(valueCondition, 0)) \o ";"
    IN  IF Length(valueCondition) > 1
        THEN <<"if (" \o ToStr(Index(valueCondition, 1)) \o ") {", indent(setter), "}">>
        ELSE <<setter>>

renderAttributes(varName, attributes) ==
    LET es == ObjectEntries(attributes)
    IN  Flatten([i \in 1..Len(es) |-> renderAttribute(varName, es[i])])


NoAttrIn == [varName |-> "", attributes |-> Undefined]

AttrIdle ==
    /\ attrIn = NoAttrIn
    /\ attrOut = [called |-> FALSE, lines |-> <<>>]

-----------------------------------------------------------------------------
(* Output options and plugin-supplied transforms *)

NoValue == ""  \* an option that is not configured (falsy)

OutputOptions ==
    [crossOriginLoading : {NoValue, "anonymous"},
     chunkLoadTimeout : {120000, 1500},
     jsonpScriptType : {NoValue, "module"}]

\* String(chunkLoadTimeout / 1000)
SecondsString(ms) ==
    LET q == ms \div 1000
        r == ms % 1000
    IN  IF r = 0 THEN ToString(q)
        ELSE IF r % 100 = 0 THEN ToString(q) \o "." \o ToString(r \div 100)
        ELSE IF r % 10 = 0
             THEN ToString(q) \o "." \o (IF r < 100 THEN "0" ELSE "") \o ToString(r \div 10)
        ELSE ToString(q) \o "." \o (IF r < 10 THEN "00" ELSE IF r < 100 THEN "0" ELSE "")
                \o ToString(r)

\* Transforms a plugin may register on mutateTag
MutateFns == {"undef", "pair", "handlers"}

\* Transforms a plugin may register on jsonpScript, linkPreload, linkPrefetch
SourceFns == {"append"}

SourceHooks == {"jsonpScript", "linkPreload", "linkPrefetch"}
HookNames == SourceHooks \cup {"mutateTag"}

MutateFn(fn, tag, attributes) ==
    CASE fn = "undef" -> Undefined
      [] fn = "pair" -> Arr(<<tag, attributes>>)
      [] fn = "handlers" ->
            Arr(<<tag,
                  Obj(SetKey(SetKey(ObjectEntries(attributes),
                                    "onload", Arr(<<Str("onScriptComplete")>>)),
                             "onerror", Arr(<<Str("onScriptComplete")>>)))>>)

\* SyncWaterfallHook(["tag", "attributes"]).call(tag, attributes): each tap gets the
\* current first argument and the unchanged rest; a result other than undefined
\* replaces the first argument; the first argument is returned.
RECURSIVE mutateTagCall(_, _, _)
mutateTagCall(taps, tag, attributes) ==
    IF taps = <<>> THEN tag
    ELSE LET r == MutateFn(taps[1].fn, tag, attributes)
         IN  mutateTagCall(Tail(taps), IF r.kind = "undefined" THEN tag ELSE r, attributes)

-----------------------------------------------------------------------------
(* The built-in transforms on jsonpScript, linkPreload and linkPrefetch *)

Iterable(v) == v.kind \in {"string", "array"}

typeAttr(o) ==
    IF o.jsonpScriptType # NoValue
    THEN <<Prop("type", Arr(<<Str(JSONstring(o.jsonpScriptType))>>))>>
    ELSE <<>>

crossOriginAttr(o, guard) ==
    IF o.crossOriginLoading # NoValue
    THEN <<Prop("crossOrigin",
                Arr(<<Str(JSONstring(o.crossOriginLoading))>> \o guard))>>
    ELSE <<>>

scriptAttributes(o) ==
    Obj(typeAttr(o)
        \o <<Prop("charset", Arr(<<Str(JSONstring("utf-8"))>>)),
             Prop("timeout", Arr(<<Str(JSONstring(SecondsString(o.chunkLoadTimeout)))>>)),
             Prop("nonce", Arr(<<Str(scriptNonce), Str(scriptNonce)>>)),
             Prop("src", Arr(<<Str("url")>>))>>
        \o crossOriginAttr(o, <<Str("script.src.indexOf(window.location.origin + '/') !== 0")>>)
        \o <<Prop("onload", Str("onScriptComplete")),
             Prop("onerror", Str("onScriptComplete"))>>)

preloadAttributes(o) ==
    Obj(typeAttr(o)
        \o <<Prop("charset", Arr(<<Str(JSONstring("utf-8"))>>)),
             Prop("nonce", Arr(<<Str(scriptNonce), Str(scriptNonce)>>)),
             Prop("rel", Arr(<<Str(JSONstring("preload"))>>)),
             Prop("as", Arr(<<Str(JSONstring("script"))>>)),
             Prop("href", Arr(<<Str(publicPath \o " + " \o getChunkScriptFilename \o "(chunkId)")>>))>>
        \o crossOriginAttr(o, <<Str("link.href.indexOf(window.location.origin + '/') !== 0")>>))

prefetchAttributes(o) ==
    Obj(<<Prop("nonce", Arr(<<Str(scriptNonce), Str(scriptNonce)>>)),
          Prop("rel", Arr(<<Str(JSONstring("prefetch"))>>)),
          Prop("as", Arr(<<Str(JSONstring("script"))>>)),
          Prop("href", Arr(<<Str(publicPath \o " + " \o getChunkScriptFilename \o "(chunkId)")>>))>>
        \o crossOriginAttr(o, <<>>))

onScriptCompleteBody ==
    Embed("onScriptComplete = ", basicFunction("", <<"">>), "")
    \o
    <<"// avoid mem leaks in IE.",
      "script.onerror = script.onload = null;",
      "clearTimeout(timeout);",
      "var reportError = loadingEnded();",
      "if(reportError) {",
      indent("var errorType = event && (event.type === 'load' ? 'missing' : event.type);"),
      indent("var realSrc = event && event.target && event.target.src;"),
      indent("error.message = 'Loading chunk ' + chunkId + ' failed.\\n(' + errorType + ': ' + realSrc + ')';"),
      indent("error.name = 'ChunkLoadError';"),
      indent("error.type = errorType;"),
      indent("error.request = realSrc;"),
      indent("reportError(error);"),
      "}">>

scriptPrologue(tagName, o) ==
    <<"var script = document.createElement(" \o tagName \o ");",
      "var onScriptComplete;",
      "// create error before stack unwound to get useful stacktrace later",
      "var error = new Error();">>
    \o Embed("onScriptComplete = ", basicFunction("event", onScriptCompleteBody), "")
    \o <<";">>
    \o Embed("var timeout = setTimeout(",
             basicFunction("", <<"onScriptComplete({ type: 'timeout', target: script })">>),
             ", " \o ToString(o.chunkLoadTimeout) \o ");")

linkPrologue(tagName) == <<"var link = document.createElement(" \o tagName \o ");">>

NoBuild ==
    [ran |-> FALSE, threw |-> FALSE, hook |-> "", tag0 |-> Undefined, attrs0 |-> Undefined,
     result |-> Undefined, tagName |-> Undefined, attributes |-> Undefined,
     prologue |-> <<>>, assignments |-> <<>>]

\* One built-in transform: the incoming source, the chunk and the hash are not read.
builtinTap(hook, o, mutateTaps) ==
    LET tag0 == Str(JSONstring(IF hook = "jsonpScript" THEN "script" ELSE "link"))
        attrs0 == CASE hook = "jsonpScript" -> scriptAttributes(o)
                    [] hook = "linkPreload" -> preloadAttributes(o)
                    [] hook = "linkPrefetch" -> prefetchAttributes(o)
        result == mutateTagCall(mutateTaps, tag0, attrs0)
        tagName == Index(result, 0)
        attributes == Index(result, 1)
        \* destructuring a non-iterable, or Object.entries(undefined), is a TypeError
        threw == ~Iterable(result) \/ attributes.kind = "undefined"
        varName == IF hook = "jsonpScript" THEN "script" ELSE "link"
    IN  [ran |-> TRUE, threw |-> threw, hook |-> hook, tag0 |-> tag0, attrs0 |-> attrs0,
         result |-> result,
         tagName |-> IF Iterable(result) THEN tagName ELSE Undefined,
         attributes |-> IF Iterable(result) THEN attributes ELSE Undefined,
         prologue |-> IF threw THEN <<>>
                      ELSE IF hook = "jsonpScript" THEN scriptPrologue(ToStr(tagName), o)
                      ELSE linkPrologue(ToStr(tagName)),
         assignments |-> IF threw THEN <<>> ELSE renderAttributes(varName, attributes)]

builtCode(b) == asString(b.prologue \o b.assignments)

NoTagIn == [hook |-> "", o |-> <<>>, taps |-> <<>>, source |-> ""]

-----------------------------------------------------------------------------
(* renderChunk and chunkHash: the manifest emitter and the hash contribution *)

MaxIds == 2          \* ids of a chunk, and ids in one entry
MaxEntries == 2      \* entries reachable from a chunk
MaxRuntimeModules == 2

ChunkIdValues == 1..2
GlobalObjects == {"window", "self"}
JsonpFunctions == {"wj", "wjw"}
HotUpdateFunctions == {"hu", "whu"}
ModuleMaps == {"{}", "{\"a\":1}"}
RuntimeModuleNames == {"jsonp chunk loading"}

\* JSON.stringify of a number, of an array of numbers, of an array of such arrays
JSONnumber(n) == ToString(n)
JSONnumbers(ns) == "[" \o Join([i \in 1..Len(ns) |-> JSONnumber(ns[i])], ",") \o "]"
JSONentries(es) == "[" \o Join([i \in 1..Len(es) |-> JSONnumbers(es[i])], ",") \o "]"

\* getEntryInfo(chunkGraph, chunk): one array per entry module reachable from the chunk
getEntryInfo(chunkGraph, chunk) == chunkGraph.entries

\* chunkGraph.getChunkRuntimeModulesInOrder(chunk)
getChunkRuntimeModulesInOrder(chunkGraph, chunk) == chunkGraph.runtimeModules

\* Template.renderChunkRuntimeModules(runtimeModules, renderContext): a Source
renderChunkRuntimeModules(runtimeModules) ==
    "function(__webpack_require__) { /* " \o Join(runtimeModules, "; ") \o " */ }"

NonEmptySeqsUpTo(S, n) == UNION {[1..k -> S] : k \in 1..n}

Chunks ==
    [hot : BOOLEAN, id : ChunkIdValues, ids : NonEmptySeqsUpTo(ChunkIdValues, MaxIds),
     hasRuntime : BOOLEAN]

ChunkGraphs ==
    [entries : {<<>>} \cup NonEmptySeqsUpTo({<<1>>, <<1, 2>>}, MaxEntries),
     runtimeModules : {<<>>} \cup NonEmptySeqsUpTo(RuntimeModuleNames, MaxRuntimeModules)]

RenderOptions ==
    [globalObject : GlobalObjects, jsonpFunction : JsonpFunctions,
     hotUpdateFunction : HotUpdateFunctions]

\* the hot-update call emitted under the name of the normal queue
hotUpdateSourceJsonpName(chunk, modules, runtimePart, o) ==
    <<<<o.globalObject, "[", JSONstring(o.jsonpFunction), "]", "(">>,
      <<JSONnumber(chunk.id), ",">>,
      <<modules>>>>
    \o (IF runtimePart # "" THEN <<<<",", "\n">>, <<runtimePart>>>> ELSE <<>>)
    \o <<<<")">>>>

\* the push emitted with the entries serialized even when there are none
jsonpSourceAlwaysEntries(chunk, modules, entries, runtimePart, o) ==
    <<<<"(", o.globalObject, "[", JSONstring(o.jsonpFunction), "]", " = ",
        o.globalObject, "[", JSONstring(o.jsonpFunction), "]", " || []).push(", "[">>,
      <<JSONnumbers(chunk.ids), ",">>,
      <<modules>>,
      <<",", JSONentries(entries)>>>>
    \o (IF runtimePart # "" THEN <<<<",", "\n">>, <<runtimePart>>>> ELSE <<>>)
    \o <<<<"]", ")">>>>

\* A piece added to the ConcatSource is kept as its tokens; the separators between
\* the arguments of the emitted call are tokens of their own.
hotUpdateSource(chunk, modules, runtimePart, o) ==
    <<<<o.globalObject, "[", JSONstring(o.hotUpdateFunction), "]", "(">>,
      <<JSONnumber(chunk.id), ",">>,
      <<modules>>>>
    \o (IF runtimePart # "" THEN <<<<",", "\n">>, <<runtimePart>>>> ELSE <<>>)
    \o <<<<")">>>>

jsonpSource(chunk, modules, entries, runtimePart, o) ==
    LET entriesPart == IF Len(entries) > 0 THEN <<",", JSONentries(entries)>> ELSE <<>>
    IN  <<<<"(", o.globalObject, "[", JSONstring(o.jsonpFunction), "]", " = ",
            o.globalObject, "[", JSONstring(o.jsonpFunction), "]", " || []).push(", "[">>,
          <<JSONnumbers(chunk.ids), ",">>,
          <<modules>>>>
        \o (IF entriesPart # <<>> \/ runtimePart # ""
            THEN <<IF entriesPart # <<>> THEN entriesPart ELSE <<",", "0">>>>
            ELSE <<>>)
        \o (IF runtimePart # "" THEN <<<<",", "\n">>, <<runtimePart>>>> ELSE <<>>)
        \o <<<<"]", ")">>>>

\* hooks.renderChunk.tap("JsonpTemplatePlugin", (modules, renderContext) => ...)
renderChunk(modules, chunk, chunkGraph, o) ==
    LET runtimeModules == getChunkRuntimeModulesInOrder(chunkGraph, chunk)
        \* false (no runtime modules) is kept as the empty string
        runtimePart == IF Len(runtimeModules) > 0
                       THEN renderChunkRuntimeModules(runtimeModules) ELSE ""
    IN  IF chunk.hot
        THEN hotUpdateSource(chunk, modules, runtimePart, o)
        ELSE jsonpSource(chunk, modules, getEntryInfo(chunkGraph, chunk), runtimePart, o)

\* the listener without the hasRuntime() return, updating the names before the
\* entry info
chunkHashUpdatesUnguarded(chunk, chunkGraph, o) ==
    <<"JsonpTemplatePlugin",
      "1",
      o.jsonpFunction,
      o.hotUpdateFunction,
      JSONentries(getEntryInfo(chunkGraph, chunk)),
      o.globalObject>>

\* hooks.chunkHash.tap("JsonpTemplatePlugin", (chunk, hash, context) => ...): the
\* arguments of the hash.update calls it makes
chunkHashUpdates(chunk, chunkGraph, o) ==
    IF chunk.hasRuntime THEN <<>>
    ELSE <<"JsonpTemplatePlugin",
           "1",
           JSONentries(getEntryInfo(chunkGraph, chunk)),
           o.jsonpFunction,
           o.hotUpdateFunction,
           o.globalObject>>

\* hash.update(data): the hash digests the data of its updates as one stream
RECURSIVE update(_, _)
update(data, updates) ==
    IF updates = <<>> THEN data ELSE update(data \o updates[1], Tail(updates))

HashObjects == 1..2
NoHashIn == [called |-> FALSE, chunk |-> <<>>, chunkGraph |-> <<>>, o |-> <<>>, modules |-> ""]

RenderIdle ==
    /\ renderIn = NoHashIn
    /\ renderOut = <<>>

HashIdle ==
    /\ hashIn = [h \in HashObjects |-> NoHashIn]
    /\ hashLog = [h \in HashObjects |-> <<>>]
    /\ hashData = [h \in HashObjects |-> ""]

ChunkIdle == RenderIdle /\ HashIdle

\* JavascriptModulesPlugin calls the renderChunk listener with the render context
RenderChunk ==
    /\ ~renderIn.called
    /\ renderIn' = [renderIn EXCEPT !.called = TRUE]
    /\ renderOut' = renderChunk(renderIn.modules, renderIn.chunk, renderIn.chunkGraph,
                                renderIn.o)
    /\ UNCHANGED <<hookVars, tagVars, hashVars, propVars, loadVars, attrVars>>

ChunkHash(h, modules, chunk, chunkGraph, o) ==
    /\ ~hashIn[h].called
    /\ hashIn' = [hashIn EXCEPT ![h] = [called |-> TRUE, chunk |-> chunk,
                                         chunkGraph |-> chunkGraph, o |-> o,
                                         modules |-> modules]]
    /\ hashLog' = [hashLog EXCEPT ![h] = @ \o chunkHashUpdates(chunk, chunkGraph, o)]
    /\ hashData' = [hashData EXCEPT ![h] = update(@, chunkHashUpdates(chunk, chunkGraph, o))]
    /\ UNCHANGED <<hookVars, tagVars, renderVars, propVars, loadVars, attrVars>>

-----------------------------------------------------------------------------
(* The runtime-requirement listeners *)

MaxPasses == 2  \* propagation passes of one compilation

TreeChunks == {"a", "b"}

\* RuntimeGlobals the listeners are registered for
Triggers == {"ensureChunkHandlers", "hmrDownloadUpdateHandlers", "hmrDownloadManifest"}

Baseline == {"moduleFactoriesAddOnly", "hasOwnProperty"}

\* the listeners the plugin registers, by hook
HandlerListener(t) == <<"handler", t>>
DownstreamListener(t) == <<"downstream", t>>
AdditionalTreeListener == <<"additionalTree", "">>

ListenersFor(T) ==
    {HandlerListener(t) : t \in T} \cup {DownstreamListener(t) : t \in T}
    \cup {AdditionalTreeListener}

NoPass ==
    [n |-> 0, chunk |-> "", set |-> 0, T |-> {}, defer |-> FALSE, pending |-> {},
     caps0 |-> {}, mods0 |-> 0, marked0 |-> FALSE, repeat |-> FALSE, reordered |-> FALSE]

PropIdle ==
    /\ onceForChunkSet = {}
    /\ capSets = <<>>
    /\ addedModules = <<>>
    /\ handled = {}
    /\ pass = NoPass

add(sets, s, caps) == [sets EXCEPT ![s].caps = @ \cup caps]

\* the handler without the onceForChunkSet check
handlerUnmarked(chunk, s, sets) ==
    [once |-> onceForChunkSet \cup {chunk},
     sets |-> add(sets, s, Baseline),
     mods |-> Append(addedModules, [chunk |-> chunk, set |-> s])]

\* the handler adding the baseline capabilities only to a set without publicPath
handlerOrderSensitive(chunk, s, sets) ==
    IF chunk \in onceForChunkSet
    THEN [once |-> onceForChunkSet, sets |-> sets, mods |-> addedModules]
    ELSE [once |-> onceForChunkSet \cup {chunk},
          sets |-> IF "publicPath" \in sets[s].caps THEN sets ELSE add(sets, s, Baseline),
          mods |-> Append(addedModules, [chunk |-> chunk, set |-> s])]

\* the handler constructing the runtime module with a copy of the set
handlerCopiesSet(chunk, s, sets) ==
    IF chunk \in onceForChunkSet
    THEN [once |-> onceForChunkSet, sets |-> sets, mods |-> addedModules]
    ELSE LET added == add(sets, s, Baseline)
         IN  [once |-> onceForChunkSet \cup {chunk},
              sets |-> Append(added, added[s]),
              mods |-> Append(addedModules, [chunk |-> chunk, set |-> Len(added) + 1])]

\* const handler = (chunk, set) => { ... }: the marker, the sets and the runtime
\* modules it leaves behind
handler(chunk, s, sets) ==
    IF chunk \in onceForChunkSet
    THEN [once |-> onceForChunkSet, sets |-> sets, mods |-> addedModules]
    ELSE [once |-> onceForChunkSet \cup {chunk},
          sets |-> add(sets, s, Baseline),
          mods |-> Append(addedModules, [chunk |-> chunk, set |-> s])]

\* listeners that leave the public path to somebody else
downstreamNoPublicPath(t) ==
    CASE t = "ensureChunkHandlers" -> {"getChunkScriptFilename"}
      [] t = "hmrDownloadUpdateHandlers" ->
            {"getChunkUpdateScriptFilename", "moduleCache", "hmrModuleData",
             "moduleFactoriesAddOnly"}
      [] t = "hmrDownloadManifest" -> {"getUpdateManifestFilename"}

\* what the second listener of each trigger adds
downstream(t) ==
    CASE t = "ensureChunkHandlers" -> {"publicPath", "getChunkScriptFilename"}
      [] t = "hmrDownloadUpdateHandlers" ->
            {"publicPath", "getChunkUpdateScriptFilename", "moduleCache", "hmrModuleData",
             "moduleFactoriesAddOnly"}
      [] t = "hmrDownloadManifest" -> {"publicPath", "getUpdateManifestFilename"}

\* needEntryDeferringCode(compilation, chunk): decided outside, fixed for a pass
needEntryDeferringCode(chunk) == pass.defer

\* a listener has run; reordered notes one running before a listener registered ahead of it
Ran(l) ==
    [pass EXCEPT !.pending = @ \ {l},
                 !.reordered = @ \/ (l[1] = "downstream" /\ HandlerListener(l[2]) \in pass.pending)]

\* The compilation starts a pass for a tree chunk: the triggers T are in the set it
\* hands to the listeners, which is the chunk's set of an earlier pass or a new one.
\* The chunks are interchangeable: the first pass is chunk "a"'s.
BeginPass(chunk, s, T, defer) ==
    /\ pass.pending = {}
    /\ pass.n < MaxPasses
    /\ pass.n = 0 => chunk = "a"
    /\ s \in 1..(Len(capSets) + 1)
    /\ s <= Len(capSets) => capSets[s].chunk = chunk
    /\ LET sets == IF s <= Len(capSets) THEN add(capSets, s, T)
                   ELSE Append(capSets, [chunk |-> chunk, caps |-> T])
       IN  /\ capSets' = sets
           /\ pass' = [n |-> pass.n + 1, chunk |-> chunk, set |-> s, T |-> T,
                       defer |-> defer, pending |-> ListenersFor(T),
                       caps0 |-> sets[s].caps, mods0 |-> Len(addedModules),
                       marked0 |-> chunk \in onceForChunkSet,
                       repeat |-> pass.n > 0 /\ <<pass.chunk, pass.set, pass.T, pass.defer>>
                                                    = <<chunk, s, T, defer>>,
                       reordered |-> FALSE]
    /\ UNCHANGED <<onceForChunkSet, addedModules, handled>>
    /\ UNCHANGED <<hookVars, tagVars, renderVars, hashVars, loadVars, attrVars>>

\* runtimeRequirementInTree.for(t): the handler
RunHandler(t) ==
    LET r == handler(pass.chunk, pass.set, capSets)
    IN  /\ HandlerListener(t) \in pass.pending
        /\ onceForChunkSet' = r.once
        /\ capSets' = r.sets
        /\ addedModules' = r.mods
        /\ handled' = handled \cup {pass.chunk}
        /\ pass' = Ran(HandlerListener(t))
        /\ UNCHANGED <<hookVars, tagVars, renderVars, hashVars, loadVars, attrVars>>

\* runtimeRequirementInTree.for(t): the listener adding the trigger's own capabilities
RunDownstream(t) ==
    /\ DownstreamListener(t) \in pass.pending
    /\ capSets' = add(capSets, pass.set, downstream(t))
    /\ pass' = Ran(DownstreamListener(t))
    /\ UNCHANGED <<onceForChunkSet, addedModules, handled>>
    /\ UNCHANGED <<hookVars, tagVars, renderVars, hashVars, loadVars, attrVars>>

\* the listener adding its capabilities without calling the handler
RunAdditionalTreeNoHandler ==
    /\ AdditionalTreeListener \in pass.pending
    /\ capSets' = IF needEntryDeferringCode(pass.chunk)
                  THEN add(capSets, pass.set, {"startup", "startupNoDefault", "require"})
                  ELSE capSets
    /\ pass' = Ran(AdditionalTreeListener)
    /\ UNCHANGED <<onceForChunkSet, addedModules, handled>>
    /\ UNCHANGED <<hookVars, tagVars, renderVars, hashVars, loadVars, attrVars>>

\* additionalTreeRuntimeRequirements
RunAdditionalTree ==
    LET withDefer == needEntryDeferringCode(pass.chunk)
        r == handler(pass.chunk, pass.set, add(capSets, pass.set, {"startup", "startupNoDefault"}))
    IN  /\ AdditionalTreeListener \in pass.pending
        /\ IF withDefer
           THEN /\ onceForChunkSet' = r.once
                /\ capSets' = add(r.sets, pass.set, {"require"})
                /\ addedModules' = r.mods
                /\ handled' = handled \cup {pass.chunk}
           ELSE UNCHANGED <<onceForChunkSet, capSets, addedModules, handled>>
        /\ pass' = Ran(AdditionalTreeListener)
        /\ UNCHANGED <<hookVars, tagVars, renderVars, hashVars, loadVars, attrVars>>

PropNext ==
    \/ \E chunk \in TreeChunks, s \in 1..MaxPasses, T \in SUBSET Triggers, defer \in BOOLEAN :
          BeginPass(chunk, s, T, defer)
    \/ \E t \in Triggers : RunHandler(t)
    \/ \E t \in Triggers : RunDownstream(t)
    \/ RunAdditionalTree

-----------------------------------------------------------------------------
(* The generated script-loading code, executed *)

MaxEvents == 3  \* events the host delivers during one load attempt

NoError == [allocated |-> FALSE, message |-> "", name |-> "", type |-> "", request |-> ""]

NoLoad ==
    [taps |-> <<>>, o |-> <<>>, chunkId |-> 0,
     code |-> [parses |-> FALSE, attributes |-> <<>>],
     pc |-> "none", next |-> 1,
     script |-> [created |-> FALSE, onload |-> "unset", onerror |-> "unset", src |-> ""],
     onScriptComplete |-> "undefined",
     timeout |-> "unset", delay |-> 0, cleared |-> FALSE,
     error |-> NoError,
     loadingEnded |-> 0, returned |-> <<>>, reported |-> <<>>,
     events |-> <<>>]

LoadIdle == load = NoLoad

\* the attribute assignments the script builder rendered for this attempt
LoadAttributes == load.code.attributes

\* The rendered code parses: the element-creation argument is an expression and
\* every attribute name is an identifier.
SyntaxOk(b) ==
    /\ ~b.threw
    /\ ToStr(b.tagName) \in {JSONstring("script"), JSONstring("link")}
    /\ \A i \in 1..Len(ObjectEntries(b.attributes)) :
          ObjectEntries(b.attributes)[i].key \notin {ToString(k) : k \in 0..9}

\* the code the script builder generated, as the host will run it: whether it
\* parses, and the attribute entries it assigns
LoadBuild(o, taps) ==
    LET b == builtinTap("jsonpScript", o, taps)
    IN  [parses |-> SyntaxOk(b),
         attributes |-> IF b.threw THEN <<>> ELSE ObjectEntries(b.attributes)]

\* What an expression of the rendered code evaluates to where the code runs
Literals ==
    {JSONstring("utf-8"), JSONstring("module"), JSONstring("anonymous")}
    \cup {JSONstring(SecondsString(o.chunkLoadTimeout)) : o \in OutputOptions}

Eval(expr, l, env) ==
    CASE expr = "onScriptComplete" -> l.onScriptComplete
      [] expr = "url" -> "url"
      [] expr = scriptNonce -> env.nonce
      [] expr = "script.src.indexOf(window.location.origin + '/') !== 0" -> env.crossOrigin
      [] expr \in Literals -> expr
      [] OTHER -> "ReferenceError"

Truthy(v) == v \notin {"", "false", "undefined", "null"}

Envs == [nonce : {"undefined", "n0nce"}, crossOrigin : {"true", "false"}]

\* script[key] = value, for the properties the attempt depends on
assign(script, key, v) ==
    CASE key = "onload" -> [script EXCEPT !.onload = v]
      [] key = "onerror" -> [script EXCEPT !.onerror = v]
      [] key = "src" -> [script EXCEPT !.src = v]
      [] OTHER -> script

\* the completion handler that leaves the element's listeners attached
onScriptCompleteAttached(l, event, reportError) ==
    LET errorType == IF event.type = "load" THEN "missing" ELSE event.type
        realSrc == l.script.src
        error == [l.error EXCEPT
                    !.message = "Loading chunk " \o ToString(l.chunkId) \o " failed.\n("
                                    \o errorType \o ": " \o realSrc \o ")",
                    !.name = "ChunkLoadError",
                    !.type = errorType,
                    !.request = realSrc]
    IN  [l EXCEPT !.onScriptComplete = "noop",
                  !.cleared = TRUE,
                  !.loadingEnded = @ + 1,
                  !.returned = Append(@, reportError),
                  !.error = IF reportError THEN error ELSE @,
                  !.reported = IF reportError THEN Append(@, error) ELSE @]

\* the completion handler reporting the event's type as it is
onScriptCompleteRawType(l, event, reportError) ==
    LET realSrc == l.script.src
        error == [l.error EXCEPT
                    !.message = "Loading chunk " \o ToString(l.chunkId) \o " failed.\n("
                                    \o event.type \o ": " \o realSrc \o ")",
                    !.name = "ChunkLoadError",
                    !.type = event.type,
                    !.request = realSrc]
    IN  [l EXCEPT !.onScriptComplete = "noop",
                  !.script.onerror = "null",
                  !.script.onload = "null",
                  !.cleared = TRUE,
                  !.loadingEnded = @ + 1,
                  !.returned = Append(@, reportError),
                  !.error = IF reportError THEN error ELSE @,
                  !.reported = IF reportError THEN Append(@, error) ELSE @]

\* the completion handler populating the error before it asks for a reporter
onScriptCompleteEagerError(l, event, reportError) ==
    LET errorType == IF event.type = "load" THEN "missing" ELSE event.type
        realSrc == l.script.src
        error == [l.error EXCEPT
                    !.message = "Loading chunk " \o ToString(l.chunkId) \o " failed.\n("
                                    \o errorType \o ": " \o realSrc \o ")",
                    !.name = "ChunkLoadError",
                    !.type = errorType,
                    !.request = realSrc]
    IN  [l EXCEPT !.onScriptComplete = "noop",
                  !.script.onerror = "null",
                  !.script.onload = "null",
                  !.cleared = TRUE,
                  !.loadingEnded = @ + 1,
                  !.returned = Append(@, reportError),
                  !.error = error,
                  !.reported = IF reportError THEN Append(@, error) ELSE @]

\* onScriptComplete = function(event) { ... }: the attempt after one invocation of
\* the function first assigned to onScriptComplete; reportError is whether
\* loadingEnded() returned a reporter
onScriptCompleteHandler(l, event, reportError) ==
    LET errorType == IF event.type = "load" THEN "missing" ELSE event.type
        realSrc == l.script.src
        error == [l.error EXCEPT
                    !.message = "Loading chunk " \o ToString(l.chunkId) \o " failed.\n("
                                    \o errorType \o ": " \o realSrc \o ")",
                    !.name = "ChunkLoadError",
                    !.type = errorType,
                    !.request = realSrc]
    IN  [l EXCEPT !.onScriptComplete = "noop",
                  !.script.onerror = "null",
                  !.script.onload = "null",
                  !.cleared = TRUE,
                  !.loadingEnded = @ + 1,
                  !.returned = Append(@, reportError),
                  !.error = IF reportError THEN error ELSE @,
                  !.reported = IF reportError THEN Append(@, error) ELSE @]

\* a call that never reaches the handler from the timer
invokeUnlessTimeout(f, l, event, reportError) ==
    IF f = "handler" /\ event.type # "timeout"
    THEN onScriptCompleteHandler(l, event, reportError)
    ELSE l

\* calling the value f with an event
invoke(f, l, event, reportError) ==
    IF f = "handler" THEN onScriptCompleteHandler(l, event, reportError) ELSE l

Others == <<hookVars, tagVars, renderVars, hashVars, propVars, attrVars>>

\* The runtime module starts a load: the rendered code begins to run, if it parses
StartLoad ==
    /\ load.pc = "start"
    /\ load' = [load EXCEPT !.pc = IF load.code.parses THEN "create" ELSE "syntaxError"]
    /\ UNCHANGED Others

\* an element created with its src already assigned
CreateElementWithSrc ==
    /\ load.pc = "create"
    /\ load' = [load EXCEPT !.pc = "error", !.script.created = TRUE, !.script.src = "url"]
    /\ UNCHANGED Others

\* var script = document.createElement(tagName); var onScriptComplete;
CreateElement ==
    /\ load.pc = "create"
    /\ load' = [load EXCEPT !.pc = "error", !.script.created = TRUE]
    /\ UNCHANGED Others

\* var error = new Error();
AllocateError ==
    /\ load.pc = "error"
    /\ load' = [load EXCEPT !.pc = "define", !.error.allocated = TRUE]
    /\ UNCHANGED Others

\* onScriptComplete = function(event) { ... };
DefineHandler ==
    /\ load.pc = "define"
    /\ load' = [load EXCEPT !.pc = "timer", !.onScriptComplete = "handler"]
    /\ UNCHANGED Others

\* var timeout = setTimeout(function() { onScriptComplete({...}) }, chunkLoadTimeout);
ArmTimer ==
    /\ load.pc = "timer"
    /\ load' = [load EXCEPT !.pc = "attributes", !.timeout = "armed",
                             !.delay = load.o.chunkLoadTimeout]
    /\ UNCHANGED Others

\* the next block renderAttributes emitted: [if (guard)] script.key = value;
AssignAttribute(env) ==
    /\ load.pc = "attributes"
    /\ load.next <= Len(LoadAttributes)
    /\ LET e == LoadAttributes[load.next]
           guarded == Length(e.val) > 1
           guard == IF guarded THEN Eval(ToStr(Index(e.val, 1)), load, env) ELSE "true"
           value == Eval(ToStr(Index(e.val, 0)), load, env)
       IN  load' =
              IF guard = "ReferenceError" \/ (Truthy(guard) /\ value = "ReferenceError")
              THEN [load EXCEPT !.pc = "threw"]
              ELSE [load EXCEPT !.next = @ + 1,
                                !.script = IF Truthy(guard) THEN assign(@, e.key, value) ELSE @]
    /\ UNCHANGED Others

\* the rendered code has run to its end: the host goes on to start the request
Requested ==
    /\ load.pc = "attributes"
    /\ load.next > Len(LoadAttributes)
    /\ load' = [load EXCEPT !.pc = "requested"]
    /\ UNCHANGED Others

\* The element's load or error event is dispatched to the listener then attached
ScriptEvent(type, reportError) ==
    /\ load.pc = "requested"
    /\ Len(load.events) < MaxEvents
    /\ LET f == IF type = "load" THEN load.script.onload ELSE load.script.onerror
           l == invoke(f, load, [type |-> type], reportError)
       IN  load' = [l EXCEPT !.events = Append(@, type)]
    /\ UNCHANGED Others

\* The timer expires: its callback is queued unless the timer was cleared
TimerExpires ==
    /\ load.pc \in {"requested", "threw"}
    /\ load.timeout = "armed"
    /\ ~load.cleared
    /\ load' = [load EXCEPT !.timeout = "queued"]
    /\ UNCHANGED Others

\* The queued timer callback runs: onScriptComplete({ type: 'timeout', target: script })
TimerCallback(reportError) ==
    /\ load.timeout = "queued"
    /\ LET l == invoke(load.onScriptComplete, load, [type |-> "timeout"], reportError)
       IN  load' = [l EXCEPT !.events = Append(@, "timeout"), !.timeout = "fired"]
    /\ UNCHANGED Others


-----------------------------------------------------------------------------
(* The hook registry: compilationHooksMap and getCompilationHooks *)

Compilations == {"c1", "c2"}
NonCompilations == {"compiler", "plainObject"}
Handles == Compilations \cup NonCompilations

\* compilation instanceof Compilation
isCompilation(x) == x \in Compilations

\* hooks = { jsonpScript: new SyncWaterfallHook(..), ... }: four fresh hook objects
newHooks(n) ==
    [jsonpScript |-> n + 1, linkPreload |-> n + 2, linkPrefetch |-> n + 3, mutateTag |-> n + 4]

\* getCompilationHooks without the cache lookup: a new hook set on every call
getCompilationHooksUncached(x) ==
    IF ~isCompilation(x)
    THEN [threw |-> TRUE, hooks |-> 0, map |-> compilationHooksMap,
          sets |-> hookSets, taps |-> hookTaps]
    ELSE [threw |-> FALSE, hooks |-> Len(hookSets) + 1,
          map |-> [compilationHooksMap EXCEPT ![x] = Len(hookSets) + 1],
          sets |-> Append(hookSets, newHooks(Len(hookTaps))),
          taps |-> hookTaps \o <<<<>>, <<>>, <<>>, <<>>>>]

\* getCompilationHooks without the instanceof check
getCompilationHooksUnchecked(x) ==
    IF compilationHooksMap[x] = 0
    THEN [threw |-> FALSE, hooks |-> Len(hookSets) + 1,
          map |-> [compilationHooksMap EXCEPT ![x] = Len(hookSets) + 1],
          sets |-> Append(hookSets, newHooks(Len(hookTaps))),
          taps |-> hookTaps \o <<<<>>, <<>>, <<>>, <<>>>>]
    ELSE [threw |-> FALSE, hooks |-> compilationHooksMap[x], map |-> compilationHooksMap,
          sets |-> hookSets, taps |-> hookTaps]

\* The outcome of getCompilationHooks(x) in the current state: whether it threw, the
\* hook set it returned and the registry it leaves behind.
getCompilationHooks(x) ==
    IF ~isCompilation(x)
    THEN [threw |-> TRUE, hooks |-> 0, map |-> compilationHooksMap,
          sets |-> hookSets, taps |-> hookTaps]
    ELSE IF compilationHooksMap[x] = 0
    THEN [threw |-> FALSE, hooks |-> Len(hookSets) + 1,
          map |-> [compilationHooksMap EXCEPT ![x] = Len(hookSets) + 1],
          sets |-> Append(hookSets, newHooks(Len(hookTaps))),
          taps |-> hookTaps \o <<<<>>, <<>>, <<>>, <<>>>>]
    ELSE [threw |-> FALSE, hooks |-> compilationHooksMap[x], map |-> compilationHooksMap,
          sets |-> hookSets, taps |-> hookTaps]

Tap(fn, via, hook, mt) == [fn |-> fn, via |-> via, hook |-> hook, mt |-> mt]

NoCall == [op |-> "none", arg |-> "", threw |-> FALSE, hooks |-> 0, value |-> ""]

\* the number of transforms plugins have registered
RECURSIVE PluginTaps(_)
PluginTaps(taps) ==
    IF taps = <<>> THEN 0
    ELSE Cardinality({i \in 1..Len(taps[1]) : taps[1][i].fn # "builtin"})
            + PluginTaps(Tail(taps))

\* a pipeline whose built-in tap adds its code to what flows in
RECURSIVE sourceCallKeepsIncoming(_, _, _)
sourceCallKeepsIncoming(taps, source, o) ==
    IF taps = <<>> THEN source
    ELSE LET r == IF taps[1].fn = "builtin"
                  THEN source \o builtCode(builtinTap(taps[1].hook, o, hookTaps[taps[1].mt]))
                  ELSE source \o "\n// " \o taps[1].fn
         IN  sourceCallKeepsIncoming(Tail(taps), r, o)

\* SyncWaterfallHook(["source", "chunk", "hash"]).call(source, chunk, hash)
RECURSIVE sourceCall(_, _, _)
sourceCall(taps, source, o) ==
    IF taps = <<>> THEN source
    ELSE LET r == IF taps[1].fn = "builtin"
                  THEN builtCode(builtinTap(taps[1].hook, o, hookTaps[taps[1].mt]))
                  ELSE source \o "\n// " \o taps[1].fn
         IN  sourceCall(Tail(taps), r, o)

ranTaps(taps, c) ==
    {<<taps[i].via, c>> : i \in 1..Len(taps)}
    \cup UNION {{<<hookTaps[taps[i].mt][j].via, c>> : j \in 1..Len(hookTaps[taps[i].mt])} :
                    i \in {k \in 1..Len(taps) : taps[k].fn = "builtin"}}

RegistryIdle ==
    /\ compilationHooksMap = [x \in Handles |-> 0]
    /\ hookSets = <<>>
    /\ hookTaps = <<>>
    /\ applied = [c \in Compilations |-> 0]
    /\ ranFor = {}
    /\ lastCall = NoCall

TagIdle ==
    /\ tagIn = NoTagIn
    /\ tagOut = NoBuild

HooksInit ==
    /\ RegistryIdle
    /\ TagIdle
    /\ ChunkIdle
    /\ PropIdle
    /\ LoadIdle
    /\ AttrIdle

\* the output options of the compilations the registry serves (the defaults)
HookOptions ==
    {[crossOriginLoading |-> NoValue, chunkLoadTimeout |-> 120000, jsonpScriptType |-> NoValue]}

\* Any caller: JsonpTemplatePlugin.getCompilationHooks(x)
GetCompilationHooks(x) ==
    LET r == getCompilationHooks(x)
    IN  /\ compilationHooksMap' = r.map
        /\ hookSets' = r.sets
        /\ hookTaps' = r.taps
        /\ lastCall' = [NoCall EXCEPT !.op = "getCompilationHooks", !.arg = x,
                                      !.threw = r.threw, !.hooks = r.hooks]
        /\ UNCHANGED <<applied, ranFor, tagVars, renderVars, hashVars, propVars, loadVars, attrVars>>

\* A plugin: JsonpTemplatePlugin.getCompilationHooks(c)[h].tap(name, fn)
TapHook(c, h, fn) ==
    LET r == getCompilationHooks(c)
    IN  /\ ~r.threw
        /\ PluginTaps(hookTaps) < MaxTaps
        /\ compilationHooksMap' = r.map
        /\ hookSets' = r.sets
        /\ hookTaps' = [r.taps EXCEPT ![r.sets[r.hooks][h]] = Append(@, Tap(fn, c, h, 0))]
        /\ lastCall' = NoCall
        /\ UNCHANGED <<applied, ranFor, tagVars, renderVars, hashVars, propVars, loadVars, attrVars>>

\* compiler.hooks.thisCompilation listener, the part that concerns the registry:
\* the three built-in transforms are registered, closing over the hook set's mutateTag
ThisCompilation(c) ==
    LET r == getCompilationHooks(c)
        hs == r.sets[r.hooks]
    IN  /\ applied[c] = 0
        /\ ~r.threw
        /\ compilationHooksMap' = r.map
        /\ hookSets' = r.sets
        /\ hookTaps' =
              [r.taps EXCEPT
                 ![hs.jsonpScript] = Append(@, Tap("builtin", c, "jsonpScript", hs.mutateTag)),
                 ![hs.linkPreload] = Append(@, Tap("builtin", c, "linkPreload", hs.mutateTag)),
                 ![hs.linkPrefetch] = Append(@, Tap("builtin", c, "linkPrefetch", hs.mutateTag))]
        /\ applied' = [applied EXCEPT ![c] = r.hooks]
        /\ lastCall' = NoCall
        /\ UNCHANGED <<ranFor, tagVars, renderVars, hashVars, propVars, loadVars, attrVars>>

\* The chunk-loading runtime module of compilation c: hook.call("", chunk, hash)
CallHook(c, h, o) ==
    LET taps == hookTaps[hookSets[applied[c]][h]]
    IN  /\ applied[c] # 0
        /\ lastCall' = [NoCall EXCEPT !.op = h, !.arg = c, !.hooks = applied[c],
                                      !.value = sourceCall(taps, "", o)]
        /\ ranFor' = ranFor \cup ranTaps(taps, c)
        /\ UNCHANGED <<compilationHooksMap, hookSets, hookTaps, applied, tagVars,
                       renderVars, hashVars, propVars, loadVars, attrVars>>

HooksNext ==
    \/ \E x \in Handles : GetCompilationHooks(x)
    \/ \E c \in Compilations, fn \in MutateFns : TapHook(c, "mutateTag", fn)
    \/ \E c \in Compilations, h \in SourceHooks, fn \in SourceFns : TapHook(c, h, fn)
    \/ \E c \in Compilations : ThisCompilation(c)
    \/ \E c \in Compilations, h \in SourceHooks, o \in HookOptions : CallHook(c, h, o)

SpecHooks == HooksInit /\ [][HooksNext]_vars

-----------------------------------------------------------------------------
(* The built-in transforms as functions of their inputs *)

RECURSIVE SeqsUpTo(_, _)
SeqsUpTo(S, n) ==
    IF n = 0 THEN {<<>>}
    ELSE LET shorter == SeqsUpTo(S, n - 1)
         IN  shorter \cup {Append(q, x) : q \in shorter, x \in S}

TagInputs ==
    [hook : SourceHooks,
     o : OutputOptions,
     taps : SeqsUpTo({Tap(fn, "c1", "mutateTag", 0) : fn \in MutateFns}, MaxMutateTaps),
     source : {"", "// a transform registered earlier"}]

TagInit ==
    /\ RegistryIdle
    /\ tagIn \in TagInputs
    /\ tagOut = NoBuild
    /\ ChunkIdle
    /\ PropIdle
    /\ LoadIdle
    /\ AttrIdle

\* hook.tap("JsonpTemplatePlugin", (_, chunk, hash) => { ... })
BuiltinTransform ==
    /\ ~tagOut.ran
    /\ tagOut' = builtinTap(tagIn.hook, tagIn.o, tagIn.taps)
    /\ UNCHANGED <<tagIn, hookVars, renderVars, hashVars, propVars, loadVars, attrVars>>

TagNext == BuiltinTransform

SpecTag == TagInit /\ [][TagNext]_vars

-----------------------------------------------------------------------------
(* Properties of the hook registry *)

HookIds(id) ==
    {hookSets[id].jsonpScript, hookSets[id].linkPreload,
     hookSets[id].linkPrefetch, hookSets[id].mutateTag}

RegistryScoped ==
    /\ \A c \in Compilations :
          compilationHooksMap[c] # 0 =>
             /\ compilationHooksMap[c] \in 1..Len(hookSets)
             /\ Cardinality(HookIds(compilationHooksMap[c])) = 4
             /\ HookIds(compilationHooksMap[c]) \subseteq 1..Len(hookTaps)
    /\ \A c, d \in Compilations :
          (c # d /\ compilationHooksMap[c] # 0 /\ compilationHooksMap[d] # 0) =>
             /\ compilationHooksMap[c] # compilationHooksMap[d]
             /\ HookIds(compilationHooksMap[c]) \cap HookIds(compilationHooksMap[d]) = {}
    /\ \A p \in ranFor : p[1] = p[2]

\* C8: getCompilationHooks returns, for a given compilation, the same hook set on
\* every call (created on the first call, with four distinct pipelines), distinct
\* hook sets for distinct compilations, and a transform registered through one
\* compilation's hooks never runs for another compilation.
C8_SameHooksPerCompilation ==
    [][/\ \A c \in Compilations :
             compilationHooksMap[c] # 0 =>
                /\ compilationHooksMap'[c] = compilationHooksMap[c]
                /\ hookSets'[compilationHooksMap[c]] = hookSets[compilationHooksMap[c]]
       /\ (lastCall'.op = "getCompilationHooks" /\ isCompilation(lastCall'.arg)) =>
             /\ ~lastCall'.threw
             /\ lastCall'.hooks = compilationHooksMap'[lastCall'.arg]
             /\ lastCall'.hooks # 0
       /\ RegistryScoped']_vars

\* a second lookup for c1 returned the hook set that already carried transforms,
\* c2 has its own hook set, and transforms have run for both compilations
C8_Witness ==
    /\ lastCall.op = "getCompilationHooks"
    /\ lastCall.arg = "c1"
    /\ lastCall.hooks = compilationHooksMap["c1"]
    /\ hookTaps[hookSets[lastCall.hooks].mutateTag] # <<>>
    /\ compilationHooksMap["c2"] # 0
    /\ {<<"c1", "c1">>, <<"c2", "c2">>} \subseteq ranFor

\* C9: getCompilationHooks called with something that is not a Compilation throws a
\* TypeError, creates no pipelines and leaves the registry unchanged.
C9_NonCompilationRejected ==
    [][(lastCall'.op = "getCompilationHooks" /\ lastCall'.arg \in NonCompilations) =>
          /\ lastCall'.threw
          /\ lastCall'.hooks = 0
          /\ UNCHANGED <<compilationHooksMap, hookSets, hookTaps>>]_vars

C9_Witness ==
    /\ lastCall.op = "getCompilationHooks"
    /\ lastCall.arg \in NonCompilations
    /\ lastCall.threw
    /\ hookSets # <<>>
    /\ PluginTaps(hookTaps) > 0

-----------------------------------------------------------------------------
(* Properties of the built-in transforms *)

Keys(v) == [i \in 1..Len(ObjectEntries(v)) |-> ObjectEntries(v)[i].key]

IsExprList(v) == v.kind = "array" /\ Len(v.items) \in {1, 2}

Contains(lines, l) == \E i \in 1..Len(lines) : lines[i] = l

\* C2: every entry of the attribute spec the script builder passes to the tag hook
\* is a list of 1 or 2 expressions, and the emitted code assigns onScriptComplete
\* to both script.onload and script.onerror.
C2_HandlersAreExprLists ==
    (tagOut.ran /\ tagOut.hook = "jsonpScript") =>
        /\ \A i \in 1..Len(tagOut.attrs0.items) : IsExprList(tagOut.attrs0.items[i].val)
        /\ Contains(tagOut.assignments, "script.onload = onScriptComplete;")
        /\ Contains(tagOut.assignments, "script.onerror = onScriptComplete;")

\* The (tag, attributes) pair a waterfall over pairs would produce: each transform
\* receives the pair the previous one returned.
RECURSIVE PairWaterfall(_, _, _)
PairWaterfall(taps, tag, attributes) ==
    IF taps = <<>> THEN <<tag, attributes>>
    ELSE LET r == MutateFn(taps[1].fn, tag, attributes)
         IN  IF r.kind = "undefined" THEN PairWaterfall(Tail(taps), tag, attributes)
             ELSE PairWaterfall(Tail(taps), r.items[1], r.items[2])

BuiltinScriptKeys(o) ==
    (IF o.jsonpScriptType # NoValue THEN <<"type">> ELSE <<>>)
    \o <<"charset", "timeout", "nonce", "src">>
    \o (IF o.crossOriginLoading # NoValue THEN <<"crossOrigin">> ELSE <<>>)
    \o <<"onload", "onerror">>

\* C3: the builders render the (tag, attributes) pair obtained by feeding the
\* built-in pair through the mutateTag transforms in registration order; with no
\* transform registered the script builder emits document.createElement("script")
\* and assignments for exactly the built-in attributes, in their order.
C3_RendersPipelinePair ==
    tagOut.ran =>
        /\ ~tagOut.threw
        /\ <<tagOut.tagName, tagOut.attributes>>
              = PairWaterfall(tagIn.taps, tagOut.tag0, tagOut.attrs0)
        /\ (tagIn.taps = <<>> /\ tagIn.hook = "jsonpScript") =>
              /\ tagOut.prologue[1] = "var script = document.createElement(\"script\");"
              /\ Keys(tagOut.attributes) = BuiltinScriptKeys(tagIn.o)
              /\ Len(tagOut.assignments) >= Len(BuiltinScriptKeys(tagIn.o))

-----------------------------------------------------------------------------
(* The manifest emitter and the hash contribution as functions of their inputs *)

RenderInputs ==
    [called : {FALSE}, modules : ModuleMaps, chunk : Chunks, chunkGraph : ChunkGraphs,
     o : RenderOptions]

RenderInit ==
    /\ RegistryIdle
    /\ TagIdle
    /\ HashIdle
    /\ renderIn \in RenderInputs
    /\ renderOut = <<>>
    /\ PropIdle
    /\ LoadIdle
    /\ AttrIdle

RenderNext == RenderChunk

SpecRender == RenderInit /\ [][RenderNext]_vars

\* the chunks whose hash contribution is compared: ids do not enter the contribution
HashChunks == {c \in Chunks : c.id = 1 /\ c.ids = <<1>> /\ ~c.hot}
HashChunkGraphs == {g \in ChunkGraphs : g.runtimeModules = <<>> /\ Len(g.entries) <= 1}

HashNext ==
    \E h \in HashObjects, modules \in ModuleMaps, chunk \in HashChunks,
       chunkGraph \in HashChunkGraphs, o \in RenderOptions :
        ChunkHash(h, modules, chunk, chunkGraph, o)

HashInit ==
    /\ RegistryIdle
    /\ TagIdle
    /\ ChunkIdle
    /\ PropIdle
    /\ LoadIdle
    /\ AttrIdle

SpecHash == HashInit /\ [][HashNext]_vars

RECURSIVE Flat(_)
Flat(pieces) == IF pieces = <<>> THEN <<>> ELSE pieces[1] \o Flat(Tail(pieces))

Tokens == Flat(renderOut)

\* the arguments of the emitted call, or the elements of the pushed array: one more
\* than the separators among the tokens
Arity == 1 + Cardinality({i \in 1..Len(Tokens) : Tokens[i] = ","})

\* the token after the k-th separator
RECURSIVE AfterSeparator(_, _)
AfterSeparator(ts, k) ==
    IF ts = <<>> THEN ""
    ELSE IF ts[1] = ","
         THEN IF k = 1 THEN (IF Len(ts) > 1 THEN ts[2] ELSE "")
              ELSE AfterSeparator(Tail(ts), k - 1)
         ELSE AfterSeparator(Tail(ts), k)

HasEntries == Len(renderIn.chunkGraph.entries) > 0
HasRuntimeModules == Len(renderIn.chunkGraph.runtimeModules) > 0

\* C4: for a normal chunk the pushed array has 2 elements iff there are neither
\* entries nor runtime modules, 3 iff there are entries and no runtime modules (the
\* third the serialized entries), 4 iff there are runtime modules (the third the
\* serialized entries, or 0 when there are none, the fourth the runtime
\* statements); the third element is never an empty array.
C4_PushShape ==
    (renderIn.called /\ ~renderIn.chunk.hot) =>
        /\ Tokens[1] = "(" /\ Tokens[2] = renderIn.o.globalObject
        /\ Tokens[4] = JSONstring(renderIn.o.jsonpFunction)
        /\ Tokens[9] = JSONstring(renderIn.o.jsonpFunction)
        /\ Tokens[11] = " || []).push(" /\ Tokens[12] = "["
        /\ Tokens[13] = JSONnumbers(renderIn.chunk.ids)
        /\ AfterSeparator(Tokens, 1) = renderIn.modules
        /\ Tokens[Len(Tokens) - 1] = "]" /\ Tokens[Len(Tokens)] = ")"
        /\ (Arity = 2) <=> (~HasEntries /\ ~HasRuntimeModules)
        /\ (Arity = 3) <=> (HasEntries /\ ~HasRuntimeModules)
        /\ (Arity = 4) <=> HasRuntimeModules
        /\ Arity >= 3 =>
              /\ AfterSeparator(Tokens, 2)
                    = IF HasEntries THEN JSONentries(renderIn.chunkGraph.entries) ELSE "0"
              /\ AfterSeparator(Tokens, 2) # "[]"
        /\ Arity = 4 =>
              /\ AfterSeparator(Tokens, 3) = "\n"
              /\ Tokens[Len(Tokens) - 2]
                    = renderChunkRuntimeModules(renderIn.chunkGraph.runtimeModules)

C4_Witness ==
    /\ renderIn.called /\ ~renderIn.chunk.hot
    /\ ~HasEntries /\ HasRuntimeModules
    /\ Arity = 4
    /\ AfterSeparator(Tokens, 2) = "0"

\* C5: for a hot-update chunk the emitted text is the call
\* <globalObject>[<hotUpdateFunction>](<chunk.id>, <moduleMap>[, <runtime>]): 2
\* arguments without runtime modules, 3 with; the first argument is the single
\* chunk id, no entry information or 0 placeholder is emitted, and jsonpFunction
\* is not used.
C5_HotUpdateShape ==
    (renderIn.called /\ renderIn.chunk.hot) =>
        /\ Tokens[1] = renderIn.o.globalObject /\ Tokens[2] = "["
        /\ Tokens[3] = JSONstring(renderIn.o.hotUpdateFunction)
        /\ Tokens[4] = "]" /\ Tokens[5] = "("
        /\ Tokens[6] = JSONnumber(renderIn.chunk.id)
        /\ AfterSeparator(Tokens, 1) = renderIn.modules
        /\ Tokens[Len(Tokens)] = ")"
        /\ Arity = IF HasRuntimeModules THEN 3 ELSE 2
        /\ HasRuntimeModules =>
              /\ AfterSeparator(Tokens, 2) = "\n"
              /\ Tokens[Len(Tokens) - 1]
                    = renderChunkRuntimeModules(renderIn.chunkGraph.runtimeModules)
        /\ \A i \in 1..Len(Tokens) :
              /\ Tokens[i] # JSONstring(renderIn.o.jsonpFunction)
              /\ Tokens[i] # "0"
              /\ Tokens[i] # JSONentries(renderIn.chunkGraph.entries)
              /\ Tokens[i] # JSONnumbers(renderIn.chunk.ids)

C5_Witness ==
    /\ renderIn.called /\ renderIn.chunk.hot
    /\ HasEntries /\ HasRuntimeModules
    /\ Len(renderIn.chunk.ids) = 2
    /\ Arity = 3

\* C10: for two chunkHash invocations on chunks without the runtime, the data
\* folded into the hash is equal exactly when jsonpFunction, hotUpdateFunction,
\* globalObject and the serialized entry info are pairwise equal; module code does
\* not enter it.
C10_HashIffConfiguration ==
    (/\ hashIn[1].called /\ hashIn[2].called
     /\ ~hashIn[1].chunk.hasRuntime /\ ~hashIn[2].chunk.hasRuntime) =>
        ((hashData[1] = hashData[2]) <=>
            (/\ hashIn[1].o.jsonpFunction = hashIn[2].o.jsonpFunction
             /\ hashIn[1].o.hotUpdateFunction = hashIn[2].o.hotUpdateFunction
             /\ hashIn[1].o.globalObject = hashIn[2].o.globalObject
             /\ JSONentries(hashIn[1].chunkGraph.entries)
                   = JSONentries(hashIn[2].chunkGraph.entries)))

-----------------------------------------------------------------------------
(* Properties of the runtime-requirement listeners *)

PropInit ==
    /\ RegistryIdle
    /\ TagIdle
    /\ ChunkIdle
    /\ PropIdle
    /\ LoadIdle
    /\ AttrIdle

SpecProp == PropInit /\ [][PropNext]_vars

ModulesOf(chunk) ==
    Cardinality({i \in 1..Len(addedModules) : addedModules[i].chunk = chunk})

PassDone == pass.n > 0 /\ pass.pending = {}

\* C6: whatever triggers fire on a chunk, exactly one chunk-loading runtime module
\* is attached to it, the set it was attached with holds the two baseline
\* capabilities, and a second run of the listeners with the same inputs (the same
\* chunk, capability set and triggers) leaves the capability set as the first run
\* left it and attaches no further runtime module.
C6_PropagatorIdempotent ==
    /\ \A chunk \in TreeChunks :
          ModulesOf(chunk) = IF chunk \in handled THEN 1 ELSE 0
    /\ \A i \in 1..Len(addedModules) : Baseline \subseteq capSets[addedModules[i].set].caps
    /\ pass.repeat =>
          /\ capSets[pass.set].caps = pass.caps0
          /\ Len(addedModules) = pass.mods0

C6_Witness ==
    /\ PassDone
    /\ pass.repeat
    /\ pass.T = Triggers
    /\ pass.defer
    /\ ModulesOf(pass.chunk) = 1

\* what a pass adds to the chunk's capability set, whatever the order of its listeners
PassAdds(T, defer, marked0) ==
    UNION {downstream(t) : t \in T}
    \cup (IF defer THEN {"startup", "startupNoDefault", "require"} ELSE {})
    \cup (IF ~marked0 /\ (T # {} \/ defer) THEN Baseline ELSE {})

\* C7: for every chunk and every set of triggers that fire in one pass, the final
\* capability set and the number of attached runtime modules are the same for
\* every order in which the listeners are invoked.
C7_ListenerOrderIrrelevant ==
    PassDone =>
        /\ capSets[pass.set].caps = pass.caps0 \cup PassAdds(pass.T, pass.defer, pass.marked0)
        /\ Len(addedModules)
              = pass.mods0 + (IF ~pass.marked0 /\ (pass.T # {} \/ pass.defer) THEN 1 ELSE 0)

\* all listeners ran, and not in the order of their registration
C7_Witness ==
    /\ PassDone
    /\ pass.T = Triggers
    /\ pass.defer
    /\ ~pass.marked0
    /\ pass.reordered

-----------------------------------------------------------------------------
(* One load attempt of the generated code *)

LoadTaps == SeqsUpTo({Tap(fn, "c1", "mutateTag", 0) : fn \in MutateFns}, 1)

LoadInit ==
    /\ RegistryIdle
    /\ TagIdle
    /\ ChunkIdle
    /\ PropIdle
    /\ AttrIdle
    /\ \E taps \in LoadTaps, o \in HookOptions, id \in ChunkIdValues :
          load = [NoLoad EXCEPT !.taps = taps, !.o = o, !.chunkId = id, !.pc = "start",
                                !.code = LoadBuild(o, taps)]

LoadNext ==
    \/ StartLoad
    \/ CreateElement
    \/ AllocateError
    \/ DefineHandler
    \/ ArmTimer
    \/ \E env \in Envs : AssignAttribute(env)
    \/ Requested
    \/ \E type \in {"load", "error"}, reportError \in BOOLEAN : ScriptEvent(type, reportError)
    \/ TimerExpires
    \/ \E reportError \in BOOLEAN : TimerCallback(reportError)

SpecLoad == LoadInit /\ [][LoadNext]_vars

\* The generated code runs to its end once entered, a timer that is armed and not
\* cleared expires, and a queued timer callback is run by the event loop. Nothing
\* obliges the element's load or error event to occur.
LoadProgress ==
    \/ StartLoad
    \/ CreateElement
    \/ AllocateError
    \/ DefineHandler
    \/ ArmTimer
    \/ \E env \in Envs : AssignAttribute(env)
    \/ Requested
    \/ TimerExpires
    \/ \E reportError \in BOOLEAN : TimerCallback(reportError)

SpecLoadFair == LoadInit /\ [][LoadNext]_vars /\ WF_vars(LoadProgress)

-----------------------------------------------------------------------------
(* Properties of the generated script-loading code *)

Completed(l) == l.loadingEnded > 0

\* what a completed attempt must keep: everything but the host's event bookkeeping
Settled(l) ==
    <<l.onScriptComplete, l.script, l.cleared, l.error, l.loadingEnded, l.returned,
      l.reported>>

\* C1: in one load attempt, whatever events fire and however often, loadingEnded()
\* is called at most once and its reporter at most once; the first invocation of
\* the completion handler replaces onScriptComplete by a no-op, sets script.onload
\* and script.onerror to null and clears the timer; later invocations change
\* nothing.
C1_CompletesAtMostOnce ==
    [][/\ load'.loadingEnded <= 1
       /\ Len(load'.reported) <= 1
       /\ (~Completed(load) /\ Completed(load')) =>
             /\ load'.onScriptComplete = "noop"
             /\ load'.script.onload = "null"
             /\ load'.script.onerror = "null"
             /\ load'.cleared
       /\ Completed(load) => Settled(load') = Settled(load)]_vars

\* the load event completed the attempt with a reporter; the error event and a
\* timer callback queued before the completion were delivered afterwards
C1_Witness ==
    /\ load.events = <<"load", "error", "timeout">>
    /\ load.loadingEnded = 1
    /\ Len(load.reported) = 1
    /\ load.reported[1].type = "missing"

-----------------------------------------------------------------------------
(* Properties of the chunkHash listener *)

\* C11: the chunkHash listener makes no hash update for a chunk that has the
\* runtime; for a chunk without the runtime it makes exactly six updates, in the
\* order "JsonpTemplatePlugin", "1", the serialized entry info, jsonpFunction,
\* hotUpdateFunction, globalObject.
C11_SixUpdatesInOrder ==
    \A h \in HashObjects :
        hashIn[h].called =>
            IF hashIn[h].chunk.hasRuntime
            THEN hashLog[h] = <<>> /\ hashData[h] = ""
            ELSE /\ Len(hashLog[h]) = 6
                 /\ hashLog[h][1] = "JsonpTemplatePlugin"
                 /\ hashLog[h][2] = "1"
                 /\ hashLog[h][3] = JSONentries(hashIn[h].chunkGraph.entries)
                 /\ hashLog[h][4] = hashIn[h].o.jsonpFunction
                 /\ hashLog[h][5] = hashIn[h].o.hotUpdateFunction
                 /\ hashLog[h][6] = hashIn[h].o.globalObject

\* one hash was offered a chunk with the runtime, the other a chunk without it
\* that has an entry
C11_Witness ==
    /\ hashIn[1].called /\ hashIn[1].chunk.hasRuntime
    /\ hashIn[2].called /\ ~hashIn[2].chunk.hasRuntime
    /\ hashIn[2].chunkGraph.entries # <<>>
    /\ Len(hashLog[2]) = 6

-----------------------------------------------------------------------------
(* Progress of a load attempt *)

TimeoutReports(l) == {i \in 1..Len(l.reported) : l.reported[i].type = "timeout"}

\* C12: once the generated code runs and arms its timer the attempt completes:
\* loadingEnded() ends up called exactly once. If no load or error event completed
\* the attempt, the timer callback does, and a report it makes has type 'timeout'
\* and the script element's src as request; if a load or error event completed the
\* attempt, the timer is cleared and no timeout report is ever made.
C12_AttemptCompletes ==
    /\ (load.timeout = "armed") ~> (load.loadingEnded = 1)
    /\ [](Completed(load) => load.loadingEnded = 1 /\ load.cleared)
    /\ []((Completed(load) /\ load.events[1] = "timeout") =>
             \A i \in 1..Len(load.reported) :
                 /\ load.reported[i].type = "timeout"
                 /\ load.reported[i].request = load.script.src)
    /\ []((Completed(load) /\ load.events[1] # "timeout") => TimeoutReports(load) = {})

\* the rendered code threw while assigning attributes, no event of the element
\* occurred, and the timer completed the attempt and reported the timeout
C12_Witness ==
    /\ load.pc = "threw"
    /\ load.events = <<"timeout">>
    /\ load.loadingEnded = 1
    /\ TimeoutReports(load) = {1}

\* C13: the element is created, the Error allocated, the completion handler
\* defined and the timer armed for chunkLoadTimeout milliseconds before src is
\* assigned to the element, hence before the request can start and before any
\* event of the attempt is delivered.
C13_ArmedBeforeSrc ==
    (load.script.src # "" \/ load.pc = "requested" \/ load.events # <<>>) =>
        /\ load.script.created
        /\ load.error.allocated
        /\ load.onScriptComplete # "undefined"
        /\ load.timeout # "unset"
        /\ load.delay = load.o.chunkLoadTimeout

\* src has just been assigned: the timer is armed and nothing was delivered yet
C13_Witness ==
    /\ load.pc = "attributes"
    /\ load.script.src = "url"
    /\ load.timeout = "armed"
    /\ load.onScriptComplete = "handler"
    /\ load.events = <<>>

\* the kind of failure an event stands for
Kind(type) == IF type = "load" THEN "missing" ELSE type

\* C14: when the first completion obtains a reporter, the error delivered to it is
\* the pre-allocated one, with type 'missing' for a load event, 'timeout' for the
\* timer and the event's own type otherwise, request the element's src, message
\* 'Loading chunk ' + chunkId + ' failed.\n(' + type + ': ' + request + ')' and name
\* 'ChunkLoadError'.
C14_ReportedErrorWellFormed ==
    load.reported # <<>> =>
        LET e == load.reported[1]
            kind == Kind(load.events[1])
            address == load.script.src
        IN  /\ e.allocated
            /\ e = load.error
            /\ e.type = kind
            /\ e.request = address
            /\ e.name = "ChunkLoadError"
            /\ e.message = "Loading chunk " \o ToString(load.chunkId) \o " failed.\n("
                              \o kind \o ": " \o address \o ")"

\* a load event completed the attempt of chunk 2 and its error was reported
C14_Witness ==
    /\ load.reported # <<>>
    /\ load.events[1] = "load"
    /\ load.chunkId = 2
    /\ load.reported[1].message = "Loading chunk 2 failed.\n(missing: url)"

-----------------------------------------------------------------------------
(* Properties of the single listeners *)

AdditionalTreeStep ==
    AdditionalTreeListener \in pass.pending /\ AdditionalTreeListener \notin pass'.pending

\* C15: the additionalTreeRuntimeRequirements listener, when the chunk needs
\* deferred-entry code, adds startup, startupNoDefault and require to the chunk's
\* set and, unless the chunk is already marked, adds the baseline capabilities and
\* attaches one runtime module, whether or not a trigger fired; when the chunk does
\* not need it, the listener adds no capability and attaches nothing.
C15_DeferredEntryForcesAttachment ==
    [][AdditionalTreeStep =>
          LET marked == pass.chunk \in onceForChunkSet
              before == capSets[pass.set].caps
              after == capSets'[pass.set].caps
          IN  IF pass.defer
              THEN /\ after = before \cup {"startup", "startupNoDefault", "require"}
                                     \cup (IF marked THEN {} ELSE Baseline)
                   /\ addedModules' =
                         IF marked THEN addedModules
                         ELSE Append(addedModules, [chunk |-> pass.chunk, set |-> pass.set])
                   /\ onceForChunkSet' = onceForChunkSet \cup {pass.chunk}
              ELSE UNCHANGED <<capSets, addedModules, onceForChunkSet>>]_vars

\* a first pass in which no trigger fired and the chunk needed deferred-entry code
C15_Witness ==
    /\ PassDone
    /\ pass.n = 1
    /\ pass.T = {}
    /\ pass.defer
    /\ ModulesOf(pass.chunk) = 1
    /\ capSets[pass.set].caps = {"startup", "startupNoDefault", "require"} \cup Baseline

-----------------------------------------------------------------------------
(* renderAttributes as a function of its arguments *)

MaxAttrs == 3  \* attributes of one mapping

AttrKeys == {"type", "nonce", "src", "onload"}

\* values a caller puts under a key: [valueExpr], [valueExpr, guardExpr], and the
\* bare string of lines 164-165
AttrValues ==
    {Arr(<<Str("url")>>),
     Arr(<<Str(scriptNonce), Str(scriptNonce)>>),
     Str("onScriptComplete")}

\* mappings of up to n distinct keys, in every insertion order
RECURSIVE AttrEntries(_)
AttrEntries(n) ==
    IF n = 0 THEN {<<>>}
    ELSE LET shorter == AttrEntries(n - 1)
         IN  shorter \cup
             {Append(es, Prop(k, v)) : es \in {x \in shorter : Len(x) = n - 1},
                                       k \in AttrKeys, v \in AttrValues}

DistinctKeys(es) == \A i, j \in 1..Len(es) : es[i].key = es[j].key => i = j

AttrInputs ==
    [varName : {"script", "link"},
     attributes : {Obj(es) : es \in {x \in AttrEntries(MaxAttrs) : DistinctKeys(x)}}]

AttrInit ==
    /\ RegistryIdle
    /\ TagIdle
    /\ ChunkIdle
    /\ PropIdle
    /\ LoadIdle
    /\ attrIn \in AttrInputs
    /\ attrOut = [called |-> FALSE, lines |-> <<>>]

\* a caller invokes JsonpTemplatePlugin.renderAttributes(varName, attributes)
RenderAttributes ==
    /\ ~attrOut.called
    /\ attrOut' = [called |-> TRUE,
                   lines |-> renderAttributes(attrIn.varName, attrIn.attributes)]
    /\ UNCHANGED <<attrIn, hookVars, tagVars, renderVars, hashVars, propVars, loadVars>>

AttrNext == RenderAttributes

SpecAttrs == AttrInit /\ [][AttrNext]_vars

AllLists(es) == \A i \in 1..Len(es) : es[i].val.kind = "array" /\ Len(es[i].val.items) \in {1, 2}

\* the block the attribute spec asks for
Block(varName, e) ==
    LET assignment == varName \o "." \o e.key \o " = " \o e.val.items[1].text \o ";"
    IN  IF Len(e.val.items) = 1 THEN <<assignment>>
        ELSE <<"if (" \o e.val.items[2].text \o ") {", "\t" \o assignment, "}">>

RECURSIVE Blocks(_, _)
Blocks(varName, es) ==
    IF es = <<>> THEN <<>> ELSE Block(varName, es[1]) \o Blocks(varName, Tail(es))

\* C16: for a mapping whose values are lists [valueExpr] or [valueExpr, guardExpr],
\* renderAttributes returns the concatenation, in the insertion order of the
\* attributes, of one block per attribute: the line `var.attr = valueExpr;`, or the
\* three lines `if (guardExpr) {`, the indented assignment, `}` when there is a
\* guard; and the mapping it was given is left as it was.
C16_OneBlockPerAttribute ==
    /\ []((attrOut.called /\ AllLists(attrIn.attributes.items)) =>
             attrOut.lines = Blocks(attrIn.varName, attrIn.attributes.items))
    /\ [][attrIn' = attrIn]_vars

\* three attributes, guarded and unguarded, inserted in an order that is not
\* alphabetical
C16_Witness ==
    /\ attrOut.called
    /\ attrIn.varName = "link"
    /\ attrIn.attributes.items =
          <<Prop("src", Arr(<<Str("url")>>)),
            Prop("nonce", Arr(<<Str(scriptNonce), Str(scriptNonce)>>)),
            Prop("onload", Arr(<<Str("url")>>))>>
    /\ Len(attrOut.lines) = 5

\* what the runtime code behind a trigger relies on
Prerequisites(t) ==
    IF t = "ensureChunkHandlers" THEN {"publicPath", "getChunkScriptFilename"}
    ELSE IF t = "hmrDownloadUpdateHandlers"
    THEN {"publicPath", "getChunkUpdateScriptFilename", "moduleCache", "hmrModuleData",
          "moduleFactoriesAddOnly"}
    ELSE {"publicPath", "getUpdateManifestFilename"}

ListenersRan(t) ==
    /\ pass.n > 0
    /\ t \in pass.T
    /\ HandlerListener(t) \notin pass.pending
    /\ DownstreamListener(t) \notin pass.pending

\* C17: in every pass, once the plugin's listeners for a trigger have run on the
\* chunk's capability set, the set contains that trigger's prerequisites; and no
\* listener ever removes a capability from a set.
C17_PrerequisitesPresent ==
    /\ [](\A t \in Triggers :
             ListenersRan(t) => Prerequisites(t) \subseteq capSets[pass.set].caps)
    /\ [][/\ Len(capSets') >= Len(capSets)
          /\ \A s \in 1..Len(capSets) : capSets[s].caps \subseteq capSets'[s].caps]_vars

\* a pass over all three triggers is finished, in a set that had seen an earlier pass
C17_Witness ==
    /\ PassDone
    /\ pass.n = 2
    /\ pass.T = Triggers
    /\ ~pass.defer
    /\ \A t \in Triggers : Prerequisites(t) \subseteq capSets[pass.set].caps

-----------------------------------------------------------------------------
(* The success path of a load attempt *)

\* C18: when loadingEnded() returns a falsy value at the first completion, no
\* reporter is invoked and the pre-allocated error keeps its message, name, type
\* and request unassigned, whether a load event, an error event or the timer
\* completed the attempt.
C18_SuccessLeavesErrorUntouched ==
    (load.returned # <<>> /\ ~load.returned[1]) =>
        /\ load.reported = <<>>
        /\ load.error = [NoError EXCEPT !.allocated = TRUE]

\* an error event completed the attempt, loadingEnded() returned nothing to call,
\* and further events were delivered afterwards
C18_Witness ==
    /\ load.events = <<"error", "load", "timeout">>
    /\ load.returned = <<FALSE>>
    /\ load.error.message = ""

-----------------------------------------------------------------------------
(* The set a runtime module is constructed with *)

AttachedInPass == Len(addedModules) > pass.mods0

\* C19: the runtime module attached to a chunk is constructed with the set object
\* of the trigger that first reached the unmarked chunk, so it sees every
\* capability the listeners add to that set in the pass, in any listener order;
\* what is added to another set object, handed over in a later pass for the same
\* chunk, does not reach the set the module holds.
C19_ModuleSharesTheSet ==
    /\ [][Len(addedModules') > Len(addedModules) =>
             /\ pass.chunk \notin onceForChunkSet
             /\ addedModules' = Append(addedModules, [chunk |-> pass.chunk, set |-> pass.set])]_vars
    /\ []((PassDone /\ AttachedInPass) =>
             pass.caps0 \cup PassAdds(pass.T, pass.defer, pass.marked0)
                 \subseteq capSets[addedModules[Len(addedModules)].set].caps)
    /\ [][\A i \in 1..Len(addedModules) :
             addedModules[i].set # pass'.set =>
                 capSets'[addedModules[i].set] = capSets[addedModules[i].set]]_vars

\* the chunk's module holds the set of the first pass; a second pass handed the
\* listeners another set for the same chunk, whose capabilities the module lacks
C19_Witness ==
    /\ PassDone
    /\ pass.n = 2
    /\ pass.T = Triggers
    /\ Len(addedModules) = 1
    /\ addedModules[1].chunk = pass.chunk
    /\ addedModules[1].set # pass.set
    /\ ~(capSets[pass.set].caps \subseteq capSets[addedModules[1].set].caps)

-----------------------------------------------------------------------------
(* The built-in transforms within their pipelines *)

\* the taps of the pipeline the last call went through
CalledTaps == hookTaps[hookSets[lastCall.hooks][lastCall.op]]

BuiltinAt(taps) == {k \in 1..Len(taps) : taps[k].fn = "builtin"}

\* code followed by what the transforms after position k add to it
RECURSIVE Followed(_, _, _)
Followed(code, taps, k) ==
    IF k >= Len(taps) THEN code
    ELSE Followed(code \o "\n// " \o taps[k + 1].fn, taps, k + 1)

\* C20: the built-in transforms on jsonpScript, linkPreload and linkPrefetch return
\* code that depends on the output options and the mutateTag transforms only, not
\* on the value flowing in: what transforms registered before the built-in one
\* produced is discarded, and transforms registered after it receive the built-in
\* code.
C20_BuiltinIgnoresIncoming ==
    (lastCall.op \in SourceHooks /\ BuiltinAt(CalledTaps) # {}) =>
        \E k \in BuiltinAt(CalledTaps), o \in HookOptions :
            lastCall.value =
                Followed(builtCode(builtinTap(lastCall.op, o,
                                              hookTaps[hookSets[lastCall.hooks].mutateTag])),
                         CalledTaps, k)

\* jsonpScript was called with one transform registered before the built-in one
\* and one after it
C20_Witness ==
    /\ lastCall.op = "jsonpScript"
    /\ Len(CalledTaps) = 3
    /\ BuiltinAt(CalledTaps) = {2}

=============================================================================
